---- MODULE Spec2Model ----
(***************************************************************************)
(* Model of train.py: the multi-seed driver (__main__), the dual-optimizer *)
(* training loop train(args) with its early stopping, and get_mean_std.    *)
(*                                                                         *)
(* Numbers.  Learning rates are exact rationals <<numerator, denominator>>;*)
(* run results handed to get_mean_std are integers counted in tenths       *)
(* (-8 stands for -0.8); a validation metrics record is represented by the *)
(* value of its primary metric.  Floating-point rounding is not modelled.  *)
(***************************************************************************)
EXTENDS Integers, Sequences, FiniteSets, TLC

\* ---- bounds of the model ------------------------------------------------
MaxEpochs   == 4    \* largest configured number of epochs
MaxPatience == 2    \* largest configured patience
MaxMinEpochs == 2   \* largest configured min_epochs
MaxEvalFreq == 3    \* largest configured eval_freq
MaxStepSize == 2    \* largest configured step_lr_reduce_freq
MaxRuns     == 2    \* largest configured num_runs
MaxParams   == 1    \* largest size of a parameter group
MaxMetric   == 1    \* largest primary-metric value of a validation record
MaxLen      == 2    \* longest result list given to get_mean_std
MaxAbs      == 8    \* largest |result| (in tenths) given to get_mean_std
GammaNum    == 1    \* step_lr_gamma = GammaNum / GammaDen
GammaDen    == 2
StieLr0     == 3    \* args.stie_lr (numerator; denominator 1)
EuclLr0     == 5    \* args.eucl_lr (numerator; denominator 1)
Dim         == 2    \* args.dim on the command line

Tasks == {"nc", "lp", "other"}

\* ---- state ---------------------------------------------------------------
VARIABLES
    cmdline,          \* sys.argv as parser.parse_args() reads it (never changes)
    modelParams,      \* what categorize_params found: [stie |-> n, eucl |-> m]
    args,             \* the parsed namespace, mutated in place by train()
    pc,               \* position of the program
    error,            \* the exception that ended the program, or "none"
    seedPos,          \* how many seeds the for loop of __main__ has consumed
    result_list,      \* __main__: result_list
    aggregate,        \* __main__: (mean, std) once computed
    model,            \* train: the class of the model constructed, "none" before
    model_training,   \* train: TRUE after model.train(), FALSE after model.eval()
    stie_params,      \* train: len(stie_params)
    eucl_params,      \* train: len(eucl_params)
    stie_optim,       \* train: the RiemannianSGD optimizer
    eucl_optim,       \* train: the Adam optimizer
    stie_lr_scheduler,\* train: StepLR of stie_optim
    eucl_lr_scheduler,\* train: StepLR of eucl_optim
    epoch,            \* train: the loop variable
    counter,          \* train: counter
    best_val_metrics, \* train: best_val_metrics
    best_test_metrics,\* train: best_test_metrics (None or a metrics record)
    loopState,        \* "Idle", "Running", "EarlyStopped", "Completed"
    sinceFav,         \* history: validations since the last favorable one
    falseRunAfterMin, \* history: trailing unfavorable validations at epochs > min_epochs
    lastFav,          \* history: the record of the last favorable validation
    ops               \* history: the calls made so far in the current epoch, in order

vars == <<cmdline, modelParams, args, pc, error, seedPos, result_list, aggregate,
          model, model_training, stie_params, eucl_params, stie_optim, eucl_optim,
          stie_lr_scheduler, eucl_lr_scheduler, epoch, counter, best_val_metrics,
          best_test_metrics, loopState, sinceFav, falseRunAfterMin, lastFav, ops>>

driverVars == <<cmdline, modelParams, seedPos, result_list, aggregate>>
modelVars == <<model, model_training>>
paramVars == <<stie_params, eucl_params>>
optimVars == <<stie_optim, eucl_optim, stie_lr_scheduler, eucl_lr_scheduler>>
loopVars == <<epoch, counter, best_val_metrics, best_test_metrics, loopState>>
valHist == <<sinceFav, falseRunAfterMin, lastFav>>
histVars == <<sinceFav, falseRunAfterMin, lastFav, ops>>

\* ---- helpers -------------------------------------------------------------
RECURSIVE Pow(_, _)
Pow(b, n) == IF n = 0 THEN 1 ELSE b * Pow(b, n - 1)

RECURSIVE SumSeq(_)
SumSeq(s) == IF s = <<>> THEN 0 ELSE Head(s) + SumSeq(Tail(s))

\* parser.parse_args(): a fresh namespace built from the command line
ParseArgs(c) ==
    [task |-> c.task, pre_trained |-> c.pre_trained, epochs |-> c.epochs,
     patience |-> c.patience, min_epochs |-> c.min_epochs,
     eval_freq |-> c.eval_freq,
     step_lr_reduce_freq |-> c.step_lr_reduce_freq,
     step_lr_gamma |-> c.step_lr_gamma,
     stie_lr |-> c.stie_lr, eucl_lr |-> c.eucl_lr,
     lr_reduce_freq |-> c.lr_reduce_freq,
     num_runs |-> c.num_runs, dim |-> c.dim]

Cmdlines ==
    [task : Tasks, pre_trained : BOOLEAN, epochs : 0..MaxEpochs,
     patience : 1..MaxPatience, min_epochs : 0..MaxMinEpochs,
     eval_freq : 1..MaxEvalFreq, step_lr_reduce_freq : 1..MaxStepSize,
     step_lr_gamma : {<<GammaNum, GammaDen>>},
     stie_lr : {<<StieLr0, 1>>}, eucl_lr : {<<EuclLr0, 1>>},
     lr_reduce_freq : {0},
     num_runs : 0..MaxRuns, dim : {Dim}]

NoOptim == [built |-> FALSE, lr |-> <<0, 1>>, steps |-> 0, zeroed |-> FALSE]
NoSched == [built |-> FALSE, last_epoch |-> 0, step_size |-> 1, gamma |-> <<1, 1>>]

\* model.init_metric_dict(): the sentinel every real record beats
init_metric_dict == -1

\* Python's None, as the value of best_test_metrics: no metrics record
None == -2
MetricRecords == 0..MaxMetric

\* torch's StepLR(optimizer, step_size, gamma)
StepLR(step_size, gamma) ==
    [built |-> TRUE, last_epoch |-> 0, step_size |-> step_size, gamma |-> gamma]

\* StepLR.step(): last_epoch += 1; the optimizer's lr is multiplied by gamma
\* when the new last_epoch is a multiple of step_size, else left alone.
\* Yields <<scheduler, optimizer>>.
StepLR_step(sched, optim) ==
    LET e == sched.last_epoch + 1 IN
    << [sched EXCEPT !.last_epoch = e],
       IF e % sched.step_size = 0
       THEN [optim EXCEPT !.lr = <<@[1] * sched.gamma[1], @[2] * sched.gamma[2]>>]
       ELSE optim >>

\* variant: any task name is accepted
TaskSupported_Any(task) == TRUE

\* line 45/49/55: the tasks train() accepts
TaskSupported(task) == task \in {"nc", "lp"}

\* lines 47, 52: the model class constructed for a task
ModelFor(task) == IF task = "nc" THEN "LPModel" ELSE "NCModel"

\* variant: only the Stiefel group is asserted non-empty
ParamGroupsOk_OnlyStie(nstie, neucl) == nstie > 0

\* lines 66-67: the two assertions on the parameter groups
ParamGroupsOk(nstie, neucl) == nstie > 0 /\ neucl > 0

\* line 118: the condition under which the validation block runs
ShouldValidate(e, a) == e % a.eval_freq # 0

\* variant: a favorable validation does not reset the counter
TrackerUpdate_NoReset(fav, best, val, cnt) ==
    IF fav THEN <<val, cnt>> ELSE <<best, cnt + 1>>

\* lines 128-132: the best-metrics tracker, yields <<best_val_metrics, counter>>
TrackerUpdate(fav, best, val, cnt) ==
    IF fav THEN <<val, 0>> ELSE <<best, cnt + 1>>

\* variant: the min_epochs floor is not consulted
ShouldStop_NoFloor(cnt, e, a) == cnt = a.patience

\* line 133: the early-stopping condition, evaluated after counter += 1
ShouldStop(cnt, e, a) == cnt = a.patience /\ e > a.min_epochs

\* variant: the Euclidean schedule is not advanced
StepAll_SkipEuclSchedule(so, eo, ss, es) ==
    LET so1 == [so EXCEPT !.steps = @ + 1, !.zeroed = FALSE]
        eo1 == [eo EXCEPT !.steps = @ + 1, !.zeroed = FALSE]
        s == StepLR_step(ss, so1)
    IN <<s[2], eo1, s[1], es>>

\* lines 104-107: one step of each optimizer, then one step of each schedule.
\* Yields <<stie_optim, eucl_optim, stie_lr_scheduler, eucl_lr_scheduler>>.
StepAll(so, eo, ss, es) ==
    LET so1 == [so EXCEPT !.steps = @ + 1, !.zeroed = FALSE]
        eo1 == [eo EXCEPT !.steps = @ + 1, !.zeroed = FALSE]
        s == StepLR_step(ss, so1)
        e == StepLR_step(es, eo1)
    IN <<s[2], e[2], s[1], e[1]>>

\* variant: dim is left as parsed
SetArgsParams_NoDim(a) ==
    [a EXCEPT !.lr_reduce_freq = IF @ = 0 THEN a.epochs ELSE @]

\* lines 26-31: the in-place changes train() makes to args (0 stands for an
\* unset lr_reduce_freq)
SetArgsParams(a) ==
    [a EXCEPT !.dim = @ + 1,
              !.lr_reduce_freq = IF @ = 0 THEN a.epochs ELSE @]

\* variant: range(1, epochs + 2)
RangeHasNext_OneMore(e, a) == e < a.epochs + 1

\* line 94: range(1, epochs + 1) yields a value after e
RangeHasNext(e, a) == e < a.epochs

\* variant: the backward pass comes after the optimizer steps
TrainOps_StepBeforeBackward ==
    <<"model.train", "stie_optim.zero_grad", "eucl_optim.zero_grad",
      "model.encode", "compute_metrics.train",
      "stie_optim.step", "eucl_optim.step", "loss.backward",
      "stie_lr_scheduler.step", "eucl_lr_scheduler.step">>

\* lines 96-107: the calls of the training part of an epoch, in order
TrainOps ==
    <<"model.train", "stie_optim.zero_grad", "eucl_optim.zero_grad",
      "model.encode", "compute_metrics.train", "loss.backward",
      "stie_optim.step", "eucl_optim.step",
      "stie_lr_scheduler.step", "eucl_lr_scheduler.step">>

\* lines 119-133: the calls of a validation, in order; the early-stopping
\* test of line 133 is made in the else branch only
ValOps(fav) ==
    <<"model.eval", "model.encode", "compute_metrics.val", "compare_metrics">>
    \o (IF fav THEN <<>> ELSE <<"stop_test">>)

\* variant: the counter also grows in an epoch without validation
NoValidation_Counts(best, cnt) == <<best, cnt + 1>>

\* line 118, condition false: the block of lines 119-135 is skipped and
\* <<best_val_metrics, counter>> stay as they are
NoValidation(best, cnt) == <<best, cnt>>

\* variant: a favorable validation records its metrics as best_test_metrics
BestTestAfterValidation_Assigned(fav, bt, val) == IF fav THEN val ELSE bt

\* lines 128-132: neither branch assigns best_test_metrics
BestTestAfterValidation(fav, bt, val) == bt

\* variant: a failed run is skipped and the next seed is tried
UncaughtTarget_Skip == "for_seed"

\* lines 164-170: an exception raised inside train() is caught nowhere
UncaughtTarget == "aborted"

\* variant: the rescaling is triggered only when all results are negative
Rescaled_AllNegative(acc) ==
    IF \A i \in 1..Len(acc) : acc[i] < 0
    THEN [i \in 1..Len(acc) |-> acc[i] * 100]
    ELSE acc

\* lines 146-149: get_mean_std(acc).  The mean is the rational
\* <<sum, n>>; the standard deviation is given by its square, the rational
\* <<sum of squared deviations * 1, n>> computed as numpy does:
\* mean(abs(x - x.mean())**2), here with deviations scaled by n.
Rescaled(acc) ==
    IF \E i \in 1..Len(acc) : acc[i] < 0
    THEN [i \in 1..Len(acc) |-> acc[i] * 100]
    ELSE acc

get_mean_std(acc) ==
    LET a == Rescaled(acc)
        n == Len(a)
        s == SumSeq(a)
        devs == [i \in 1..n |-> (n * a[i] - s) * (n * a[i] - s)]
    IN IF n = 0
       THEN [nan |-> TRUE, mean |-> <<0, 1>>, std_sq |-> <<0, 1>>]
       ELSE [nan |-> FALSE, mean |-> <<s, n>>, std_sq |-> <<SumSeq(devs), n * n * n>>]

NoAggregate == [done |-> FALSE, nan |-> FALSE, mean |-> <<0, 1>>, std_sq |-> <<0, 1>>]

\* ---- initial state: __main__ up to line 163 -----------------------------
InitRest ==
    /\ args = ParseArgs(cmdline)
    /\ error = "none"
    /\ seedPos = 0
    /\ aggregate = NoAggregate
    /\ model = "none"
    /\ model_training = FALSE
    /\ stie_params = 0
    /\ eucl_params = 0
    /\ stie_optim = NoOptim
    /\ eucl_optim = NoOptim
    /\ stie_lr_scheduler = NoSched
    /\ eucl_lr_scheduler = NoSched
    /\ epoch = 0
    /\ counter = 0
    /\ best_val_metrics = init_metric_dict
    /\ best_test_metrics = None
    /\ loopState = "Idle"
    /\ sinceFav = 0
    /\ falseRunAfterMin = 0
    /\ lastFav = init_metric_dict
    /\ ops = <<>>

Init ==
    /\ cmdline \in Cmdlines
    /\ modelParams = [stie |-> 0, eucl |-> 0]
    /\ result_list = <<>>
    /\ pc = "for_seed"
    /\ InitRest

\* ---- __main__ : lines 164-167 -------------------------------------------
\* the for loop takes the next seed, re-parses the arguments and calls train;
\* when the seeds are used up control falls to line 171
ForSeed ==
    /\ pc = "for_seed"
    /\ IF seedPos < cmdline.num_runs
       THEN /\ seedPos' = seedPos + 1
            /\ args' = ParseArgs(cmdline)
            /\ pc' = "train_setup"
       ELSE /\ pc' = "aggregate"
            /\ UNCHANGED <<seedPos, args>>
    /\ UNCHANGED <<cmdline, modelParams, result_list, aggregate, error>>
    /\ UNCHANGED <<modelVars, paramVars, optimVars, loopVars, histVars>>

\* ---- train : lines 24-43 ------------------------------------------------
TrainSetup ==
    /\ pc = "train_setup"
    /\ args' = SetArgsParams(args)
    /\ model' = "none"
    /\ model_training' = FALSE
    /\ stie_params' = 0
    /\ eucl_params' = 0
    /\ stie_optim' = NoOptim
    /\ eucl_optim' = NoOptim
    /\ stie_lr_scheduler' = NoSched
    /\ eucl_lr_scheduler' = NoSched
    /\ epoch' = 0
    /\ loopState' = "Idle"
    /\ pc' = "select_model"
    /\ UNCHANGED <<driverVars, error, counter, best_val_metrics, best_test_metrics, histVars>>

\* ---- train : lines 45-57 ------------------------------------------------
SelectModel ==
    /\ pc = "select_model"
    /\ IF TaskSupported(args.task)
       THEN /\ model' = ModelFor(args.task)
            /\ pc' = "check_pre_trained"
            /\ error' = error
       ELSE /\ error' = "ValueError"
            /\ pc' = UncaughtTarget
            /\ model' = model
    /\ UNCHANGED <<driverVars, args, model_training, paramVars, optimVars, loopVars, histVars>>

\* ---- train : lines 58-62 ------------------------------------------------
CheckPreTrained ==
    /\ pc = "check_pre_trained"
    /\ IF args.pre_trained
       THEN /\ error' = "NotImplementedError"
            /\ pc' = UncaughtTarget
       ELSE /\ error' = error
            /\ pc' = "categorize"
    /\ UNCHANGED <<driverVars, args, modelVars, paramVars, optimVars, loopVars, histVars>>

\* ---- train : lines 65-67 ------------------------------------------------
Categorize ==
    /\ pc = "categorize"
    /\ \E found \in [stie : 0..MaxParams, eucl : 0..MaxParams] :
          /\ modelParams' = found
          /\ stie_params' = found.stie
          /\ eucl_params' = found.eucl
          /\ IF ParamGroupsOk(found.stie, found.eucl)
             THEN /\ pc' = "build_optimizers"
                  /\ error' = error
             ELSE /\ error' = "AssertionError"
                  /\ pc' = UncaughtTarget
    /\ UNCHANGED <<cmdline, seedPos, result_list, aggregate, args, modelVars,
                   optimVars, loopVars, histVars>>

\* ---- train : lines 68-93 ------------------------------------------------
BuildOptimizers ==
    /\ pc = "build_optimizers"
    /\ stie_optim' = [built |-> TRUE, lr |-> args.stie_lr, steps |-> 0, zeroed |-> FALSE]
    /\ eucl_optim' = [built |-> TRUE, lr |-> args.eucl_lr, steps |-> 0, zeroed |-> FALSE]
    /\ stie_lr_scheduler' = StepLR(args.step_lr_reduce_freq, args.step_lr_gamma)
    /\ eucl_lr_scheduler' = StepLR(args.step_lr_reduce_freq, args.step_lr_gamma)
    /\ counter' = 0
    /\ best_val_metrics' = init_metric_dict
    /\ best_test_metrics' = None
    /\ epoch' = 0
    /\ loopState' = "Running"
    /\ sinceFav' = 0
    /\ falseRunAfterMin' = 0
    /\ lastFav' = init_metric_dict
    /\ ops' = <<>>
    /\ pc' = "loop_head"
    /\ UNCHANGED <<driverVars, args, error, modelVars, paramVars>>

\* ---- train : line 94, for epoch in range(1, epochs + 1) -----------------
\* line 94 reads args.epoch where line 31 reads args.epochs; both are taken
\* to be the configured number of epochs (the parser is not part of train.py)
LoopHead ==
    /\ pc = "loop_head"
    /\ IF RangeHasNext(epoch, args)
       THEN /\ epoch' = epoch + 1
            /\ pc' = "epoch_train"
            /\ loopState' = loopState
            /\ ops' = <<>>
       ELSE /\ loopState' = "Completed"
            /\ pc' = "finish"
            /\ epoch' = epoch
            /\ ops' = ops
    /\ UNCHANGED <<driverVars, args, error, modelVars, paramVars, optimVars,
                   counter, best_val_metrics, best_test_metrics, valHist>>

\* ---- train : lines 95-107 -----------------------------------------------
EpochTrain ==
    /\ pc = "epoch_train"
    /\ model_training' = TRUE
    /\ LET r == StepAll([stie_optim EXCEPT !.zeroed = TRUE],
                        [eucl_optim EXCEPT !.zeroed = TRUE],
                        stie_lr_scheduler, eucl_lr_scheduler)
       IN /\ stie_optim' = r[1]
          /\ eucl_optim' = r[2]
          /\ stie_lr_scheduler' = r[3]
          /\ eucl_lr_scheduler' = r[4]
    /\ ops' = TrainOps
    /\ pc' = "epoch_eval"
    /\ UNCHANGED <<driverVars, args, error, model, paramVars, loopVars, valHist>>

\* ---- train : lines 118-135 ----------------------------------------------
\* val is the record compute_metrics returns for split 'val', fav what
\* model.compare_metrics(best_val_metrics, val_metrics) answers
EpochEval ==
    /\ pc = "epoch_eval"
    /\ IF ShouldValidate(epoch, args)
       THEN \E val \in MetricRecords, fav \in BOOLEAN :
              LET t == TrackerUpdate(fav, best_val_metrics, val, counter) IN
              /\ model_training' = FALSE
              /\ best_val_metrics' = t[1]
              /\ counter' = t[2]
              /\ best_test_metrics' = BestTestAfterValidation(fav, best_test_metrics, val)
              /\ ops' = ops \o ValOps(fav)
              /\ sinceFav' = IF fav THEN 0 ELSE sinceFav + 1
              /\ lastFav' = IF fav THEN val ELSE lastFav
              /\ falseRunAfterMin' =
                    IF fav \/ epoch <= args.min_epochs THEN 0
                    ELSE falseRunAfterMin + 1
              /\ IF ~fav /\ ShouldStop(t[2], epoch, args)
                 THEN /\ loopState' = "EarlyStopped"
                      /\ pc' = "finish"
                 ELSE /\ loopState' = loopState
                      /\ pc' = "loop_head"
       ELSE LET t == NoValidation(best_val_metrics, counter) IN
            /\ best_val_metrics' = t[1]
            /\ counter' = t[2]
            /\ pc' = "loop_head"
            /\ UNCHANGED <<model_training, best_test_metrics, loopState, histVars>>
    /\ UNCHANGED <<driverVars, args, error, model, paramVars, optimVars, epoch>>

\* ---- train : lines 137-143, then __main__ : lines 168-170 ---------------
\* best_test_metrics['roc'] / ['f1']: subscripting None raises TypeError;
\* a value returned is appended to result_list
Finish ==
    /\ pc = "finish"
    /\ IF best_test_metrics = None
       THEN /\ error' = "TypeError"
            /\ pc' = UncaughtTarget
            /\ result_list' = result_list
       ELSE /\ result_list' = Append(result_list, best_test_metrics)
            /\ pc' = "for_seed"
            /\ error' = error
    /\ UNCHANGED <<cmdline, modelParams, seedPos, aggregate, args, modelVars,
                   paramVars, optimVars, loopVars, histVars>>

\* ---- __main__ : line 171 ------------------------------------------------
Aggregate ==
    /\ pc = "aggregate"
    /\ LET r == get_mean_std(result_list) IN
       aggregate' = [done |-> TRUE, nan |-> r.nan, mean |-> r.mean, std_sq |-> r.std_sq]
    /\ pc' = "exit"
    /\ UNCHANGED <<cmdline, modelParams, seedPos, result_list, args, error,
                   modelVars, paramVars, optimVars, loopVars, histVars>>

Next ==
    \/ ForSeed
    \/ TrainSetup
    \/ SelectModel
    \/ CheckPreTrained
    \/ Categorize
    \/ BuildOptimizers
    \/ LoopHead
    \/ EpochTrain
    \/ EpochEval
    \/ Finish
    \/ Aggregate

Spec == Init /\ [][Next]_vars

\* the program is one sequential thread: a step that can be taken is taken
FairSpec == Spec /\ WF_vars(Next)

\* ---- get_mean_std on its own: every non-empty bounded result list ------
ResultLists == UNION {[1..n -> (-MaxAbs)..MaxAbs] : n \in 1..MaxLen}

InitMeanStd ==
    /\ cmdline \in {c \in Cmdlines : c.task = "nc" /\ ~c.pre_trained /\ c.epochs = 0
                                      /\ c.patience = 1 /\ c.min_epochs = 0
                                      /\ c.eval_freq = 1 /\ c.step_lr_reduce_freq = 1
                                      /\ c.num_runs = 0}
    /\ modelParams = [stie |-> 1, eucl |-> 1]
    /\ result_list \in ResultLists
    /\ pc = "aggregate"
    /\ InitRest

NextMeanStd == Aggregate

SpecMeanStd == InitMeanStd /\ [][NextMeanStd]_vars

\* ---- properties ---------------------------------------------------------
\* the number of epochs whose training part (lines 95-107) has completed
EpochsTrained == IF pc = "epoch_train" THEN epoch - 1 ELSE epoch

\* lr equals lr0 * gamma^n, all three rationals
LrIs(lr, lr0, gamma, n) ==
    lr[1] * lr0[2] * Pow(gamma[2], n) = lr0[1] * Pow(gamma[1], n) * lr[2]

\* C1: once the comparator has answered false at `patience` consecutive
\* validations that all took place after epoch min_epochs, the loop has
\* halted at the epoch of the last of them: no later epoch is running.
C1_HaltsAfterPatienceUnfavorable ==
    falseRunAfterMin >= args.patience => pc \notin {"epoch_train", "epoch_eval"}

\* C2: an early stop happens only at an epoch e with min_epochs < e <= epochs,
\* and a loop that ends without an early stop has executed all configured epochs.
C2_NoEarlyStopAtOrBeforeFloor ==
    /\ loopState = "EarlyStopped" =>
          /\ epoch > args.min_epochs
          /\ epoch <= args.epochs
          /\ stie_optim.steps = epoch
    /\ loopState = "Completed" =>
          /\ epoch = args.epochs
          /\ stie_optim.steps = args.epochs
          /\ eucl_optim.steps = args.epochs

C2_Witness ==
    /\ loopState = "EarlyStopped"
    /\ args.min_epochs >= 1
    /\ epoch = args.min_epochs + 1
    /\ epoch < args.epochs

\* C3: once train() has left the epoch loop and ended, it has returned the
\* primary metric of the record stored at the last favorable comparison.
C3_YieldsBestRecordedMetrics ==
    (loopState \in {"EarlyStopped", "Completed"} /\ pc # "finish") =>
        /\ error = "none"
        /\ Len(result_list) >= 1
        /\ result_list[Len(result_list)] = lastFav

\* C4: while the loop runs and after it, the counter is the number of
\* validations since the last favorable one (or since the start), and
\* best_val_metrics is the record of the last favorable validation (the
\* sentinel when there was none); both start at 0 and the sentinel.
C4_TrackerFollowsValidations ==
    /\ loopState # "Idle" =>
          /\ counter = sinceFav
          /\ best_val_metrics = lastFav
    /\ (loopState = "Running" /\ epoch = 0) =>
          /\ counter = 0
          /\ best_val_metrics = init_metric_dict

C4_Witness ==
    /\ loopState = "Running"
    /\ counter = 2
    /\ best_val_metrics # init_metric_dict
    /\ pc = "loop_head"

\* C5: when the evaluation part of epoch e is over, the model has been put
\* in evaluation mode (validation ran) exactly when e is a multiple of eval_freq.
C5_ValidatesOnMultiplesOfEvalFreq ==
    (pc \in {"loop_head", "finish"} /\ loopState \in {"Running", "EarlyStopped"}
        /\ epoch >= 1) =>
        ((~model_training) <=> (epoch % args.eval_freq = 0))

\* C6: after e trained epochs each schedule has been advanced e times and
\* each optimizer's learning rate is initial_rate * gamma^floor(e / k).
C6_StepDecayClosedForm ==
    stie_optim.built =>
        LET e == EpochsTrained
            k == args.step_lr_reduce_freq
        IN /\ stie_lr_scheduler.last_epoch = e
           /\ eucl_lr_scheduler.last_epoch = e
           /\ LrIs(stie_optim.lr, args.stie_lr, args.step_lr_gamma, e \div k)
           /\ LrIs(eucl_optim.lr, args.eucl_lr, args.step_lr_gamma, e \div k)

C6_Witness ==
    /\ stie_optim.built
    /\ args.step_lr_reduce_freq = 2
    /\ EpochsTrained = 4
    /\ eucl_optim.lr = <<EuclLr0 * GammaNum * GammaNum, GammaDen * GammaDen>>

\* C7: get_mean_std of a non-empty list: with s = 100 when some element is
\* negative and s = 1 otherwise, the mean is s * sum / n and the squared
\* standard deviation is the population variance E[x^2] - E[x]^2 of the
\* list multiplied by s; [-0.8, -0.6] gives mean -70 and std 10.
C7_MeanStdOfRescaledList ==
    (aggregate.done /\ result_list # <<>>) =>
        LET n == Len(result_list)
            s == IF \E i \in 1..n : result_list[i] < 0 THEN 100 ELSE 1
            sum == SumSeq(result_list)
            sumSq == SumSeq([i \in 1..n |-> result_list[i] * result_list[i]])
        IN /\ ~aggregate.nan
           /\ aggregate.mean[1] * n = s * sum * aggregate.mean[2]
           /\ aggregate.std_sq[1] * n * n
                 = s * s * (n * sumSq - sum * sum) * aggregate.std_sq[2]
           /\ result_list = <<-8, -6>> =>
                 /\ aggregate.mean[1] = -700 * aggregate.mean[2]
                 /\ aggregate.std_sq[1] = 100 * 100 * aggregate.std_sq[2]

C7_Witness ==
    /\ aggregate.done
    /\ result_list = <<-8, 6>>
    /\ aggregate.mean[1] = -100 * aggregate.mean[2]

\* C8: the result list holds one entry per run that returned; the aggregate
\* is computed only when all num_runs runs have returned, over num_runs
\* results; after a failed run no further seed is run and no aggregate
\* is computed.
C8_DriverAbortsOnFailure ==
    /\ Len(result_list) =
          IF pc \in {"for_seed", "aggregate", "exit"} THEN seedPos ELSE seedPos - 1
    /\ aggregate.done =>
          /\ seedPos = cmdline.num_runs
          /\ Len(result_list) = cmdline.num_runs
          /\ error = "none"
    /\ error # "none" =>
          /\ pc = "aborted"
          /\ ~aggregate.done

C8_Witness ==
    /\ error = "TypeError"
    /\ pc = "aborted"
    /\ seedPos = 1
    /\ cmdline.num_runs = 2
    /\ ~aggregate.done

\* C9: under a configuration whose task is neither nc nor lp, or that asks
\* for a pre-trained model, train() never gets past its checks: no optimizer
\* or scheduler is built, no epoch runs, no optimizer step is taken, and
\* train() is called at most once.
C9_ConfigErrorsFatalBeforeTraining ==
    (~(cmdline.task \in {"nc", "lp"}) \/ cmdline.pre_trained) =>
        /\ pc \in {"for_seed", "train_setup", "select_model", "check_pre_trained",
                   "aborted", "aggregate", "exit"}
        /\ ~stie_optim.built /\ ~eucl_optim.built
        /\ ~stie_lr_scheduler.built /\ ~eucl_lr_scheduler.built
        /\ stie_optim.steps = 0 /\ eucl_optim.steps = 0
        /\ epoch = 0 /\ loopState = "Idle"
        /\ seedPos <= 1
        /\ (pc = "aborted" => error \in {"ValueError", "NotImplementedError"})

C9_Witness ==
    /\ error = "ValueError"
    /\ cmdline.task = "other"
    /\ cmdline.num_runs = 2
    /\ pc = "aborted"

\* C10: with an empty Stiefel or Euclidean group train() fails before either
\* optimizer is built; whenever an optimizer exists or an epoch has run,
\* both groups are non-empty.
C10_BothGroupsNonEmpty ==
    /\ (stie_optim.built \/ eucl_optim.built \/ epoch >= 1) =>
          (stie_params > 0 /\ eucl_params > 0)
    /\ (modelParams.stie = 0 \/ modelParams.eucl = 0) =>
          /\ ~stie_optim.built /\ ~eucl_optim.built
          /\ epoch = 0
          /\ pc \notin {"build_optimizers", "loop_head", "epoch_train",
                        "epoch_eval", "finish"}

C10_Witness ==
    /\ error = "AssertionError"
    /\ stie_params > 0
    /\ eucl_params = 0
    /\ ~stie_optim.built

\* position of the first occurrence of a call in the current epoch's log
Pos(op) == CHOOSE i \in 1..Len(ops) : ops[i] = op /\ \A j \in 1..(i - 1) : ops[j] # op

\* how often a call occurs in the current epoch's log
Count(op) == Cardinality({i \in 1..Len(ops) : ops[i] = op})

\* C12: the loop never starts a further epoch after a validation at an
\* epoch e > min_epochs has left the counter at or above patience.
C12_StopsAtOrAbovePatience ==
    ~(/\ pc = "epoch_train"
      /\ epoch >= 2
      /\ ~model_training
      /\ epoch - 1 > args.min_epochs
      /\ counter >= args.patience)

\* C13: in every executed epoch both zero_grad calls precede the backward
\* pass, the backward pass precedes both optimizer steps, each optimizer
\* steps once, each schedule is advanced once and after both optimizer
\* steps, and every call of the validation comes after both advances.
C13_EpochOrder ==
    (loopState # "Idle" /\ epoch >= 1 /\ pc # "epoch_train") =>
        /\ \A op \in {"stie_optim.zero_grad", "eucl_optim.zero_grad", "loss.backward",
                      "stie_optim.step", "eucl_optim.step",
                      "stie_lr_scheduler.step", "eucl_lr_scheduler.step"} :
              Count(op) = 1
        /\ Pos("stie_optim.zero_grad") < Pos("loss.backward")
        /\ Pos("eucl_optim.zero_grad") < Pos("loss.backward")
        /\ Pos("loss.backward") < Pos("stie_optim.step")
        /\ Pos("loss.backward") < Pos("eucl_optim.step")
        /\ \A sch \in {"stie_lr_scheduler.step", "eucl_lr_scheduler.step"} :
              /\ Pos("stie_optim.step") < Pos(sch)
              /\ Pos("eucl_optim.step") < Pos(sch)
              /\ \A i \in 1..Len(ops) :
                    ops[i] \in {"model.eval", "compute_metrics.val",
                                "compare_metrics", "stop_test"} => Pos(sch) < i
        /\ stie_optim.steps = epoch /\ eucl_optim.steps = epoch
        /\ stie_lr_scheduler.last_epoch = epoch /\ eucl_lr_scheduler.last_epoch = epoch

C13_Witness ==
    /\ loopState = "EarlyStopped"
    /\ pc = "finish"
    /\ epoch >= 2
    /\ Count("stop_test") = 1
    /\ Count("eucl_lr_scheduler.step") = 1

\* C14: the program always comes to an end; the epoch number never exceeds
\* the configured maximum and only ever grows by one; a loop that ends
\* without an early stop has executed exactly the configured epochs.
C14_LoopTerminates ==
    /\ <>(pc \in {"aborted", "exit"})
    /\ [](/\ epoch <= args.epochs
          /\ loopState = "Completed" =>
                (epoch = args.epochs /\ stie_optim.steps = args.epochs))
    /\ [][epoch' # epoch => epoch' = epoch + 1]_vars

C14_Witness ==
    /\ loopState = "Completed"
    /\ args.epochs >= 3
    /\ epoch = args.epochs
    /\ stie_optim.steps = args.epochs
    /\ pc = "aborted"

\* C15: best_test_metrics is None in every state, no result is ever
\* collected, and every run that has left the epoch loop has ended in the
\* TypeError of the final return.
C15_TrainNeverReturns ==
    /\ best_test_metrics = None
    /\ result_list = <<>>
    /\ (loopState \in {"EarlyStopped", "Completed"} /\ pc # "finish") =>
          (error = "TypeError" /\ pc = "aborted")

C15_Witness ==
    /\ error = "TypeError"
    /\ loopState = "EarlyStopped"
    /\ best_val_metrics # init_metric_dict
    /\ best_test_metrics = None

\* C16: each schedule takes its step interval from its own configuration:
\* the Stiefel schedule from step_lr_reduce_freq, the Euclidean schedule
\* from lr_reduce_freq (the field train() defaults at lines 30-31).
C16_SchedulesSeparatelyParameterized ==
    (stie_lr_scheduler.built /\ eucl_lr_scheduler.built) =>
        /\ stie_lr_scheduler.step_size = args.step_lr_reduce_freq
        /\ eucl_lr_scheduler.step_size = args.lr_reduce_freq

\* C17: the model constructed is NCModel for task nc and LPModel for task lp.
C17_ModelFollowsTask ==
    model # "none" =>
        /\ args.task = "nc" => model = "NCModel"
        /\ args.task = "lp" => model = "LPModel"

\* C18: while the loop runs, the counter and best_val_metrics change, and
\* the loop stops early, only in a step of the evaluation part that called
\* model.eval() (a validation); an early stop leaves best_val_metrics alone
\* and comes with the counter growing by one (the unfavorable branch).
C18_FrameOutsideValidation ==
    [][(/\ loopState = "Running"
        /\ \/ counter' # counter
           \/ best_val_metrics' # best_val_metrics
           \/ loopState' = "EarlyStopped")
       => (/\ pc = "epoch_eval"
           /\ ~model_training'
           /\ loopState' = "EarlyStopped" =>
                 (counter' = counter + 1 /\ best_val_metrics' = best_val_metrics))]_vars

C18_Witness ==
    /\ loopState = "Running"
    /\ pc = "loop_head"
    /\ epoch >= 2
    /\ model_training
    /\ counter >= 1
    /\ best_val_metrics # init_metric_dict

====
